---- MODULE Spec2Model ----
(***************************************************************************)
(* A model of Unlog (src/UnlogImplementation.h): categories, the scoped    *)
(* category stack of the Unlogger singleton, category pickers, targets,    *)
(* the TUnlog configuration builder, the generated log functions and the   *)
(* UNLOG macros, context flags and the function-local static singletons.   *)
(***************************************************************************)
EXTENDS Integers, Sequences, FiniteSets, TLC

VARIABLES
    PushedCategories,   \* Unlogger::PushedCategories (TArray<UnlogCategoryBase*>)
    ScopedCategories,   \* the FUnlogScopedCategory objects alive, in construction order
    pc,                 \* "idle", "called" right after a log call has run, or
                        \* "ill-formed" when the call written does not compile
    call,               \* the log call that has just run (its call-site inputs)
    events,             \* what that call did, in program order
    Counter,            \* UnlogContextBase::Counter of each context (uint32)
    ContextGuards,      \* the UnloggerScopedContext objects alive
    crashed,            \* a check() has failed or a host call was fatal: the process is gone
    InitState,          \* function-local statics: "uninit", "initializing", "done"
    Constructions,      \* how many times each static's initializer has completed
    Frames,             \* per thread: the Static()/Get() calls it is inside of
    Obtained,           \* per thread: the instance its last access returned
    Settings,           \* Unlogger::Settings: nullptr until Unlogger::Get() has run once
    SettingsObjects,    \* the runtime settings singletons constructed so far
    Applied,            \* the TSettings of the last ApplyRuntimeSettings, nullptr if none
    GEngine,            \* nullptr until the engine is initialized
    MessageLogModule,   \* whether the host can load the "MessageLog" module
    OnPostEngineInit,   \* how many RunCmd lambdas are bound to FCoreDelegates::OnPostEngineInit
    TelemetryRequests,  \* how many times RunCmd has run GEngine->Exec
    Workers,            \* per thread: where it is in { guard; log call; end of scope }
    Alias,              \* the flavor a chain of builder steps has produced, and the steps
    Scopes              \* the guard declarations alive in nested scopes, innermost last

vars == << PushedCategories, ScopedCategories, pc, call, events, Counter,
           ContextGuards, crashed, InitState, Constructions, Frames, Obtained,
           Settings, SettingsObjects, Applied, GEngine, MessageLogModule,
           OnPostEngineInit, TelemetryRequests, Workers, Alias, Scopes >>

loggerVars   == << PushedCategories, ScopedCategories, pc, call, events >>
contextVars  == << Counter, ContextGuards, crashed >>
staticVars   == << InitState, Constructions, Frames, Obtained >>
settingsVars == << Settings, SettingsObjects, Applied >>
hostVars     == << GEngine, MessageLogModule, OnPostEngineInit, TelemetryRequests >>
otherVars    == << Workers, Alias, Scopes >>

----------------------------------------------------------------------------
(* Bounds *)

MaxDepth == 2          \* scoped-category guards alive at once

MaxContextGuards == 3  \* scoped context guards alive at once

NumThreads == 2        \* threads racing for a first access

----------------------------------------------------------------------------
(* ELogVerbosity, as used by the log functions and the filter *)

NoLogging   == 0
Error       == 2
Warning     == 3
Display     == 4
Log         == 5
Verbose     == 6
VeryVerbose == 7

\* The verbosity each generated function family passes (TUnlog, lines 732-737).
FunctionVerbosities == { Log, Warning, Error, Display, Verbose, VeryVerbose }

\* UNLOG( args, VerbosityName, ... ) takes the name of any verbosity.
MacroVerbosities == FunctionVerbosities \cup { NoLogging }

----------------------------------------------------------------------------
(* Categories *)

nullptr == "nullptr"

\* Category types declared with UNLOG_CATEGORY; LogGeneral is the library's own.
CategoryNames == { "LogGeneral", "CatA", "CatB" }

\* Construct that gives the category the threshold VeryVerbose
ConstructVeryVerbose(CategoryName) ==
    [ CategoryName |-> CategoryName, Verbosity |-> VeryVerbose ]

\* UNLOG_CATEGORY's Construct(): the name is the type's name, the verbosity Log.
Construct(CategoryName) == [ CategoryName |-> CategoryName, Verbosity |-> Log ]

\* UnlogCategoryCRTP<TCategory>::Static(): the one instance of the category type.
Static(TCategory) == Construct(TCategory)

GetName(Category) == Category.CategoryName

GetVerbosity(Category) == Category.Verbosity

----------------------------------------------------------------------------
(* Runtime settings *)

\* A runtime settings type of the library, and two a program declares
SettingsTypes == { "UnlogDefaultRuntimeSettings", "SettingsA", "SettingsB" }

\* UnlogRuntimeSettingsBase(): Targets(), DefaultCategory()
UnlogRuntimeSettingsBase == [ Targets |-> << >>, DefaultCategory |-> nullptr ]

\* UnlogRuntimeSettingsBase::AddTarget< TTarget >(): Targets.Add(new TTarget())
SettingsAddTarget(S, TTarget) == [ S EXCEPT !.Targets = Append(@, TTarget) ]

\* UnlogRuntimeSettingsBase::GetTargets
GetTargets(S) == S.Targets

\* UnlogRuntimeSettingsBase::SetDefaultCategory< TCategory >()
SetDefaultCategory(S, TCategory) == [ S EXCEPT !.DefaultCategory = GetName(Static(TCategory)) ]

\* UnlogRuntimeSettingsBase::GetDefaultCategory:
\* DefaultCategory ? *DefaultCategory : LogGeneral::Static()
GetDefaultCategory(S) ==
    IF S.DefaultCategory /= nullptr THEN S.DefaultCategory ELSE GetName(Static("LogGeneral"))

\* ConcreteSettings::PopulateSettings(): the library's sets LogGeneral; SettingsA
\* adds a runtime target and sets CatA; SettingsB adds a target and sets no category.
PopulateSettings(TSettings, S) ==
    CASE TSettings = "UnlogDefaultRuntimeSettings" -> SetDefaultCategory(S, "LogGeneral")
      [] TSettings = "SettingsA" ->
            SetDefaultCategory(SettingsAddTarget(S, "RuntimeTargetA"), "CatA")
      [] OTHER -> SettingsAddTarget(S, "RuntimeTargetB")

\* RuntimeSettingsCRTP< ConcreteSettings >::MakeSettings
MakeSettings(TSettings) == PopulateSettings(TSettings, UnlogRuntimeSettingsBase)

\* RuntimeSettingsCRTP< ConcreteSettings >::Static(): constructed by the first call,
\* the same object ever after.  Objects are the singletons constructed so far.
SettingsStatic(Objects, TSettings) ==
    IF TSettings \in DOMAIN Objects THEN Objects
    ELSE [ T \in DOMAIN Objects \cup { TSettings } |->
             IF T = TSettings THEN MakeSettings(TSettings) ELSE Objects[T] ]

\* ApplyRuntimeSettingsInternal that keeps the reference it has
ApplyRuntimeSettingsInternalKept(TSettings, Current) ==
    IF Current = nullptr THEN TSettings ELSE Current

\* Unlogger::ApplyRuntimeSettingsInternal< TSettings >(): Settings = &TSettings::Static()
ApplyRuntimeSettingsInternal(TSettings, Current) == TSettings

----------------------------------------------------------------------------
(* Targets *)

Sinks == { "UELog", "MessageLog", "GameScreen" }

Sink(name) == [ kind |-> "sink", name |-> name, members |-> << >> ]

\* Target::TMultiTarget< TTargets... >
TMultiTarget(TTargets) == [ kind |-> "multi", name |-> "TMultiTarget", members |-> TTargets ]

\* Target::Default
TargetDefault == Sink("UELog")

NoMessage == [ IsPrintf |-> FALSE, Format |-> "", Args |-> << >> ]

Ev(op, target, Category, Verbosity, Message) ==
    [ op |-> op, target |-> target, Category |-> Category,
      Verbosity |-> Verbosity, Message |-> Message ]

RECURSIVE TargetCall(_, _, _, _)
RECURSIVE CallMembers(_, _, _, _, _)

\* CallMembers with the members called last to first
CallMembersReversed(TTargets, i, Category, Verbosity, Message) ==
    IF i > Len(TTargets) THEN << >>
    ELSE CallMembers(TTargets, i + 1, Category, Verbosity, Message)
         \o TargetCall(TTargets[i], Category, Verbosity, Message)

\* The pack expansion inside the braced initializer list: members left to right.
CallMembers(TTargets, i, Category, Verbosity, Message) ==
    IF i > Len(TTargets) THEN << >>
    ELSE TargetCall(TTargets[i], Category, Verbosity, Message)
         \o CallMembers(TTargets, i + 1, Category, Verbosity, Message)

\* T::Call(Category, Verbosity, Message): a sink hands the triple to its host
\* service, a TMultiTarget calls its members.
TargetCall(T, Category, Verbosity, Message) ==
    IF T.kind = "sink"
    THEN << Ev("Call", T.name, GetName(Category), Verbosity, Message) >>
    ELSE CallMembers(T.members, 1, Category, Verbosity, Message)

----------------------------------------------------------------------------
(* Category pickers *)

TSpecificCategory(TCategory) == [ kind |-> "TSpecificCategory", Category |-> TCategory ]

TDeriveCategory(TDefaultCategory) == [ kind |-> "TDeriveCategory", Category |-> TDefaultCategory ]

\* The pickers' PickCategory write the category through their reference parameter;
\* the pointer they are declared to return is never produced, and the one caller,
\* Unlogger::PickCategory, does not read it.  Flowing off the end of a function
\* that returns a value is undefined: the call returns to its caller with the
\* category written, or it does not return (the compiler takes the end of the
\* function as unreachable and the process is lost there).
PickerOutcomes == { "returns", "traps" }

\* The operators below are the call that returns.

\* TSpecificCategory<TCategory>::PickCategory: InOutCategory = &TCategory::Static()
SpecificPickCategory(TCategory, InOutCategory) == TCategory

\* DerivePickCategory that overwrites a category already derived from the stack
DerivePickCategoryAlways(TDefaultCategory, InOutCategory) == TDefaultCategory

\* TDeriveCategory<TDefaultCategory>::PickCategory: only when not already derived
DerivePickCategory(TDefaultCategory, InOutCategory) ==
    IF InOutCategory = nullptr THEN TDefaultCategory ELSE InOutCategory

\* PickCategory that reads the oldest entry of the stack
PickCategoryFirst(CategoryPicker, Pushed) ==
    LET SelectedCategory == IF Len(Pushed) > 0 THEN Pushed[1] ELSE nullptr
    IN  IF CategoryPicker.kind = "TSpecificCategory"
        THEN SpecificPickCategory(CategoryPicker.Category, SelectedCategory)
        ELSE DerivePickCategory(CategoryPicker.Category, SelectedCategory)

\* Unlogger::PickCategory<CategoryPicker>(): the name of the selected category
PickCategory(CategoryPicker, Pushed) ==
    LET SelectedCategory == IF Len(Pushed) > 0 THEN Pushed[Len(Pushed)] ELSE nullptr
    IN  IF CategoryPicker.kind = "TSpecificCategory"
        THEN SpecificPickCategory(CategoryPicker.Category, SelectedCategory)
        ELSE DerivePickCategory(CategoryPicker.Category, SelectedCategory)

----------------------------------------------------------------------------
(* The configuration builder TUnlog< InTargetOptions, InCategoryPicker > *)

TUnlog(InTargetOptions, InCategoryPicker) ==
    [ TargetOptions |-> InTargetOptions, CategoryPicker |-> InCategoryPicker ]

\* TUnlog<>
TUnlogDefault == TUnlog(TargetDefault, TDeriveCategory("LogGeneral"))

\* WithTargets that starts again from the default category policy
WithTargetsReset(U, Targets) == TUnlog(TMultiTarget(Targets), TDeriveCategory("LogGeneral"))

WithTargets(U, Targets) == TUnlog(TMultiTarget(Targets), U.CategoryPicker)

AddTarget(U, Targets) ==
    TUnlog(TMultiTarget(<< U.TargetOptions >> \o Targets), U.CategoryPicker)

WithDefaultCategory(U, InCategory) == TUnlog(U.TargetOptions, TDeriveCategory(InCategory))

WithCategory(U, InCategory) == TUnlog(U.TargetOptions, TSpecificCategory(InCategory))

\* The argument packs the builder steps are tried with: one sink, or two different ones.
TargetPacks ==
    { << Sink(s) >> : s \in Sinks }
    \cup { << Sink(p[1]), Sink(p[2]) >> : p \in { q \in Sinks \X Sinks : q[1] /= q[2] } }

\* Flavors with a second builder step: the README's Example B, CompileTest's
\* CustomUnlog, and AddTarget on a flavor that already has a two-sink WithTargets.
ExampleB ==
    WithDefaultCategory(WithTargets(TUnlogDefault, << Sink("UELog"), Sink("GameScreen") >>), "CatA")

CustomUnlog == WithTargets(WithCategory(TUnlogDefault, "CatA"), << Sink("GameScreen") >>)

AddTargetBases ==
    { TUnlogDefault } \cup { WithTargets(TUnlogDefault, p) : p \in { q \in TargetPacks : Len(q) = 2 } }

AddTargetPacks(U) ==
    IF U = TUnlogDefault THEN TargetPacks ELSE { q \in TargetPacks : Len(q) = 1 }

\* The logger flavors of the model: TUnlog<>, every flavor one builder step away
\* from it, and the two-step flavors above.
Flavors ==
    { TUnlogDefault, ExampleB, CustomUnlog }
    \cup { WithTargets(TUnlogDefault, p) : p \in TargetPacks }
    \cup UNION { { AddTarget(U, p) : p \in AddTargetPacks(U) } : U \in AddTargetBases }
    \cup { WithDefaultCategory(TUnlogDefault, c) : c \in CategoryNames }
    \cup { WithCategory(TUnlogDefault, c) : c \in CategoryNames }

----------------------------------------------------------------------------
(* Formatting *)

\* The template and arguments a call site passes, per format strategy.
FormatOf(IsPrintf) == IF IsPrintf THEN "%s: %d" ELSE "{0}: {1}"

FormatArgs == << "Hey", "42" >>

\* Unlogger::ProcessFormatString: FString::Format(Format, { Args... }) for the
\* ordered strategy, FString::Printf(Format, Args...) for the printf one.  The
\* rendered text is kept as the strategy applied to the template and arguments.
ProcessFormatString(IsPrintf, Format, Args) ==
    [ IsPrintf |-> IsPrintf, Format |-> Format, Args |-> Args ]

----------------------------------------------------------------------------
(* Unlogger::UnlogPrivateImpl< StaticConfiguration > *)

\* PassesFilter with a strict comparison
PassesFilterStrict(Verbosity, Category) ==
    Verbosity < Category.Verbosity /\ Verbosity /= NoLogging

\* PassesFilter without the NoLogging test
PassesFilterNoLogging(Verbosity, Category) == Verbosity <= Category.Verbosity

\* Verbosity <= Category.GetVerbosity() && Verbosity != ELogVerbosity::NoLogging
PassesFilter(Verbosity, Category) ==
    Verbosity <= GetVerbosity(Category) /\ Verbosity /= NoLogging

\* UnlogPrivateImpl that also hands the message to the targets of the installed
\* runtime settings
UnlogPrivateImplRuntimeTargets(CategoryPicker, TargetOptions, IsPrintf, Format, Verbosity, Args, Pushed) ==
    LET Category == Static(PickCategory(CategoryPicker, Pushed))
        Picked   == Ev("PickCategory", "", GetName(Category), Verbosity, NoMessage)
        Filtered == Ev("Filter", "", GetName(Category), Verbosity, NoMessage)
        Runtime  == IF Settings = nullptr THEN << >> ELSE GetTargets(SettingsObjects[Settings])
    IN  IF PassesFilter(Verbosity, Category)
        THEN LET Result == ProcessFormatString(IsPrintf, Format, Args)
             IN  << Picked, Filtered,
                    Ev("ProcessFormatString", "", GetName(Category), Verbosity, Result) >>
                 \o TargetCall(TargetOptions, Category, Verbosity, Result)
                 \o [ i \in 1 .. Len(Runtime) |->
                        Ev("Call", Runtime[i], GetName(Category), Verbosity, Result) ]
        ELSE << Picked, Filtered >>

UnlogPrivateImpl(CategoryPicker, TargetOptions, IsPrintf, Format, Verbosity, Args, Pushed) ==
    LET Category == Static(PickCategory(CategoryPicker, Pushed))
        Picked   == Ev("PickCategory", "", GetName(Category), Verbosity, NoMessage)
        Filtered == Ev("Filter", "", GetName(Category), Verbosity, NoMessage)
    IN  IF PassesFilter(Verbosity, Category)
        THEN LET Result == ProcessFormatString(IsPrintf, Format, Args)
             IN  << Picked, Filtered,
                    Ev("ProcessFormatString", "", GetName(Category), Verbosity, Result) >>
                 \o TargetCall(TargetOptions, Category, Verbosity, Result)
        ELSE << Picked, Filtered >>

----------------------------------------------------------------------------
(* The generated log functions of a flavor U (UNLOG_DECLARE_CATEGORY_LOG_FUNCTION_CONDITIONALS) *)

\* FunctionName<TCategory>(Format, Args...): the Configuration is built from the
\* flavor's CategoryPicker and TargetOptions.
LogFunction(U, TCategory, IsPrintf, Verbosity, Pushed) ==
    UnlogPrivateImpl(U.CategoryPicker, U.TargetOptions, IsPrintf,
                     FormatOf(IsPrintf), Verbosity, FormatArgs, Pushed)

\* LogFunctionIf that does not test its Condition
LogFunctionIfUntested(U, TCategory, Condition, IsPrintf, Verbosity, Pushed) ==
    UnlogPrivateImpl(U.CategoryPicker, U.TargetOptions, IsPrintf,
                     FormatOf(IsPrintf), Verbosity, FormatArgs, Pushed)

\* FunctionName<TCategory>(const bool Condition, Format, Args...)
LogFunctionIf(U, TCategory, Condition, IsPrintf, Verbosity, Pushed) ==
    IF Condition
    THEN UnlogPrivateImpl(U.CategoryPicker, U.TargetOptions, IsPrintf,
                          FormatOf(IsPrintf), Verbosity, FormatArgs, Pushed)
    ELSE << >>

\* FunctionName<TCategory>(const TFunction<bool()>& LambdaCondition, Format, Args...):
\* the callable is invoked and its result handed to the boolean overload.
LogFunctionLambda(U, TCategory, LambdaResult, IsPrintf, Verbosity, Pushed) ==
    << Ev("LambdaCondition", "", "", Verbosity, NoMessage) >>
    \o LogFunctionIf(U, TCategory, LambdaResult, IsPrintf, Verbosity, Pushed)

----------------------------------------------------------------------------
(* The UNLOG macros *)

NoArgs == [ kind |-> "none", Category |-> "", Settings |-> TUnlogDefault ]

CategoryArg(TCategory) == [ kind |-> "category", Category |-> TCategory, Settings |-> TUnlogDefault ]

SettingsArg(U) == [ kind |-> "settings", Category |-> "", Settings |-> U ]

\* TMacroOptions< TMacroArgs< InMacroArgs >, Unlog >::UnlogOptions, by the three
\* specializations of TMacroArgs: a flavor, a category, nothing.
GetSettings(InMacroArgs, TSourceSettings) ==
    CASE InMacroArgs.kind = "settings" ->
            TUnlog(InMacroArgs.Settings.TargetOptions, InMacroArgs.Settings.CategoryPicker)
      [] InMacroArgs.kind = "category" ->
            TUnlog(TSourceSettings.TargetOptions, TSpecificCategory(InMacroArgs.Category))
      [] OTHER -> TSourceSettings

\* UnlogMacroExpand< MacroOptions, IsPrintfFormat >( InVerbosity, Format, Args... )
UnlogMacroExpand(UnlogOptions, IsPrintf, InVerbosity, Pushed) ==
    UnlogPrivateImpl(UnlogOptions.CategoryPicker, UnlogOptions.TargetOptions, IsPrintf,
                     FormatOf(IsPrintf), InVerbosity, FormatArgs, Pushed)

\* UNLOG / UNLOGF( InMacroArgs, VerbosityName, Message, ... ), Unlog being the
\* flavor the program has named Unlog.
UNLOG(InMacroArgs, Unlog, IsPrintf, Verbosity, Pushed) ==
    UnlogMacroExpand(GetSettings(InMacroArgs, Unlog), IsPrintf, Verbosity, Pushed)

\* UNCLOG / UNCLOGF( Condition, InMacroArgs, VerbosityName, Message, ... )
UNCLOG(Condition, InMacroArgs, Unlog, IsPrintf, Verbosity, Pushed) ==
    IF Condition
    THEN UnlogMacroExpand(GetSettings(InMacroArgs, Unlog), IsPrintf, Verbosity, Pushed)
    ELSE << >>

\* What a macro call site can put in InMacroArgs, and the flavor named Unlog with it.
MacroCallSites ==
    { << NoArgs, U >> : U \in Flavors }
    \cup { << CategoryArg(c), U >> : c \in CategoryNames, U \in Flavors }
    \cup { << SettingsArg(U), TUnlogDefault >> : U \in Flavors }

----------------------------------------------------------------------------
(* Scoped categories *)

\* Unlogger::PushCategory
PushCategory(Pushed, Category) == Append(Pushed, Category)

\* PopCategory that removes the oldest entry
PopCategoryFront(Pushed) == Tail(Pushed)

\* Unlogger::PopCategory, past its check: TArray::Pop removes the last element
PopCategory(Pushed) == SubSeq(Pushed, 1, Len(Pushed) - 1)

----------------------------------------------------------------------------
(* The host: the engine and its modules *)

\* The engine finishes initializing: GEngine is set and initialized, and
\* FCoreDelegates::OnPostEngineInit is broadcast once, running each bound RunCmd.
PostEngineInit ==
    /\ ~crashed
    /\ GEngine = nullptr
    /\ GEngine' = "initialized"
    /\ TelemetryRequests' = TelemetryRequests + OnPostEngineInit
    /\ UNCHANGED << loggerVars, contextVars, staticVars, settingsVars, otherVars,
                    MessageLogModule, OnPostEngineInit >>

\* A sink's host service that is fatal to call now: Target::TGameScreen::Call
\* dereferences GEngine, Target::MessageLog::Call uses LoadModuleChecked.
HostFails(sink) ==
    \/ sink = "GameScreen" /\ GEngine = nullptr
    \/ sink = "MessageLog" /\ ~MessageLogModule

RECURSIVE FirstFailureFrom(_, _)

FirstFailureFrom(did, i) ==
    IF i > Len(did) THEN 0
    ELSE IF did[i].op = "Call" /\ HostFails(did[i].target) THEN i
         ELSE FirstFailureFrom(did, i + 1)

\* The position in a call's steps of the first sink call that is fatal, 0 if none
FirstFailure(did) == FirstFailureFrom(did, 1)

\* What of the call's steps runs: all of them, or those up to the fatal sink call.
\* Nothing catches a failure: TMultiTarget::Call and UnlogPrivateImpl just call on.
StepsRun(did) ==
    IF FirstFailure(did) = 0 THEN did ELSE SubSeq(did, 1, FirstFailure(did))

----------------------------------------------------------------------------
(* Unlogger::Get, CreateLogger and the telemetry dispatcher *)

\* The test of FTelemetryDispatcher() that always finds the engine not ready
EngineNotReadyAlways(Engine) == TRUE

\* !GEngine || !GEngine->IsInitialized()
EngineNotReady(Engine) == Engine = nullptr

\* FTelemetryDispatcher(): RunCmd is bound to OnPostEngineInit, or run at once
FTelemetryDispatcher ==
    IF EngineNotReady(GEngine)
    THEN /\ OnPostEngineInit' = OnPostEngineInit + 1
         /\ UNCHANGED TelemetryRequests
    ELSE /\ TelemetryRequests' = TelemetryRequests + 1
         /\ UNCHANGED OnPostEngineInit

\* A Get() that runs CreateLogger on every call
FirstGetAlways == TRUE

\* `static Unlogger Logger = CreateLogger();` has not run yet
FirstGet == Settings = nullptr

\* The settings singletons there are once Unlogger::Get() has returned
GetObjects ==
    IF FirstGet
    THEN SettingsStatic(SettingsObjects, "UnlogDefaultRuntimeSettings")
    ELSE SettingsObjects

\* The `static const FTelemetryDispatcher` of CreateLogger (editor build)
GetTelemetry ==
    IF FirstGet THEN FTelemetryDispatcher
    ELSE UNCHANGED << OnPostEngineInit, TelemetryRequests >>

\* Unlogger::Get(): the first call runs CreateLogger, which installs the default
\* settings and constructs the telemetry dispatcher; later calls change nothing.
UnloggerGet ==
    /\ Settings' = IF FirstGet
                   THEN ApplyRuntimeSettingsInternal("UnlogDefaultRuntimeSettings", Settings)
                   ELSE Settings
    /\ SettingsObjects' = GetObjects
    /\ GetTelemetry

\* Unlogger::ApplyRuntimeSettings< TSettings >()
ApplyRuntimeSettings ==
    /\ pc = "idle"
    /\ ~crashed
    /\ \E TSettings \in SettingsTypes :
          /\ Settings' = ApplyRuntimeSettingsInternal(TSettings,
                             IF FirstGet THEN "UnlogDefaultRuntimeSettings" ELSE Settings)
          /\ SettingsObjects' = SettingsStatic(GetObjects, TSettings)
          /\ Applied' = TSettings
    /\ GetTelemetry
    /\ UNCHANGED << loggerVars, contextVars, staticVars, otherVars, GEngine, MessageLogModule >>

----------------------------------------------------------------------------
(* The application thread: log calls and scope guards *)

NoCall ==
    [ api |-> "none", Unlog |-> TUnlogDefault, MacroArgs |-> NoArgs, TCategory |-> "",
      Verbosity |-> NoLogging, IsPrintf |-> FALSE, Shape |-> "none", Condition |-> FALSE ]

FunctionCallSite(U, TCategory, Verbosity, IsPrintf, Shape, Condition) ==
    [ api |-> "function", Unlog |-> U, MacroArgs |-> NoArgs, TCategory |-> TCategory,
      Verbosity |-> Verbosity, IsPrintf |-> IsPrintf, Shape |-> Shape, Condition |-> Condition ]

MacroCallSite(InMacroArgs, U, Verbosity, IsPrintf, Shape, Condition) ==
    [ api |-> "macro", Unlog |-> U, MacroArgs |-> InMacroArgs, TCategory |-> "",
      Verbosity |-> Verbosity, IsPrintf |-> IsPrintf, Shape |-> Shape, Condition |-> Condition ]

Running == pc = "idle" /\ ~crashed

\* The call reaches Unlogger::Get().UnlogPrivateImpl (its guard, if any, was true)
UsesLogger(did) == \E i \in 1 .. Len(did) : did[i].op = "PickCategory"

Called(site, did) ==
    /\ pc' = "called"
    /\ call' = site
    /\ events' = StepsRun(did)
    /\ crashed' = (FirstFailure(did) /= 0)
    /\ IF UsesLogger(did) THEN UnloggerGet
       ELSE UNCHANGED << Settings, SettingsObjects, OnPostEngineInit, TelemetryRequests >>
    /\ UNCHANGED << PushedCategories, ScopedCategories, Counter, ContextGuards, staticVars,
                    Applied, GEngine, MessageLogModule, otherVars >>

\* Unlog::Log( "..." ) and Unlog::Log< TCategory >( "..." ), for each function family
CallLogFunction ==
    /\ Running
    /\ \E U \in Flavors, TCategory \in CategoryNames \cup { "" },
          Verbosity \in FunctionVerbosities, IsPrintf \in BOOLEAN :
          Called(FunctionCallSite(U, TCategory, Verbosity, IsPrintf, "unconditional", TRUE),
                 LogFunction(U, TCategory, IsPrintf, Verbosity, PushedCategories))

\* Unlog::Warn( Value, "..." )
CallLogFunctionIf ==
    /\ Running
    /\ \E U \in Flavors, TCategory \in CategoryNames \cup { "" },
          Verbosity \in FunctionVerbosities, IsPrintf \in BOOLEAN, Condition \in BOOLEAN :
          Called(FunctionCallSite(U, TCategory, Verbosity, IsPrintf, "bool", Condition),
                 LogFunctionIf(U, TCategory, Condition, IsPrintf, Verbosity, PushedCategories))

\* Unlog::Warn( TFunction<bool()>, "..." ): the callable returns either value
CallLogFunctionLambda ==
    /\ Running
    /\ \E U \in Flavors, TCategory \in CategoryNames \cup { "" },
          Verbosity \in FunctionVerbosities, IsPrintf \in BOOLEAN, LambdaResult \in BOOLEAN :
          Called(FunctionCallSite(U, TCategory, Verbosity, IsPrintf, "lambda", LambdaResult),
                 LogFunctionLambda(U, TCategory, LambdaResult, IsPrintf, Verbosity, PushedCategories))

\* UNLOG( ... ) and UNLOGF( ... )
CallUNLOG ==
    /\ Running
    /\ \E m \in MacroCallSites, Verbosity \in MacroVerbosities, IsPrintf \in BOOLEAN :
          Called(MacroCallSite(m[1], m[2], Verbosity, IsPrintf, "unconditional", TRUE),
                 UNLOG(m[1], m[2], IsPrintf, Verbosity, PushedCategories))

\* UNCLOG( ... ) and UNCLOGF( ... )
CallUNCLOG ==
    /\ Running
    /\ \E m \in MacroCallSites, Verbosity \in MacroVerbosities, IsPrintf \in BOOLEAN,
          Condition \in BOOLEAN :
          Called(MacroCallSite(m[1], m[2], Verbosity, IsPrintf, "bool", Condition),
                 UNCLOG(Condition, m[1], m[2], IsPrintf, Verbosity, PushedCategories))

\* The log call returns to its caller.
Return ==
    /\ pc = "called"
    /\ ~crashed
    /\ pc' = "idle"
    /\ call' = NoCall
    /\ events' = << >>
    /\ UNCHANGED << PushedCategories, ScopedCategories, contextVars, staticVars,
                    settingsVars, hostVars, otherVars >>

\* FUnlogScopedCategory< TCategory >(): UNLOG_CATEGORY_PUSH / UNLOG_CATEGORY_SCOPED
ScopedCategoryEnter ==
    /\ Running
    /\ Len(ScopedCategories) < MaxDepth
    /\ \E TCategory \in CategoryNames :
          /\ PushedCategories' = PushCategory(PushedCategories, GetName(Static(TCategory)))
          /\ ScopedCategories' = Append(ScopedCategories, TCategory)
    /\ UnloggerGet
    /\ UNCHANGED << pc, call, events, contextVars, staticVars,
                    Applied, GEngine, MessageLogModule, otherVars >>

\* ~FUnlogScopedCategory(), of the innermost guard alive: the scope is left
ScopedCategoryExit ==
    /\ Running
    /\ Len(ScopedCategories) > 0
    /\ ScopedCategories' = SubSeq(ScopedCategories, 1, Len(ScopedCategories) - 1)
    /\ IF Len(PushedCategories) > 0
       THEN /\ PushedCategories' = PopCategory(PushedCategories)
            /\ UNCHANGED crashed
       ELSE /\ crashed' = TRUE
            /\ UNCHANGED PushedCategories
    /\ UnloggerGet
    /\ UNCHANGED << pc, call, events, Counter, ContextGuards, staticVars,
                    Applied, GEngine, MessageLogModule, otherVars >>

\* What a function call site does, by its shape
FunctionDid(site, Pushed) ==
    CASE site.Shape = "unconditional" ->
            LogFunction(site.Unlog, site.TCategory, site.IsPrintf, site.Verbosity, Pushed)
      [] site.Shape = "bool" ->
            LogFunctionIf(site.Unlog, site.TCategory, site.Condition, site.IsPrintf,
                          site.Verbosity, Pushed)
      [] OTHER ->
            LogFunctionLambda(site.Unlog, site.TCategory, site.Condition, site.IsPrintf,
                              site.Verbosity, Pushed)

\* Every function call site a program can write on the flavors of FlavorSet
FunctionCallSites(FlavorSet) ==
    { FunctionCallSite(U, TCategory, Verbosity, IsPrintf, "unconditional", TRUE) :
        U \in FlavorSet, TCategory \in CategoryNames \cup { "" },
        Verbosity \in FunctionVerbosities, IsPrintf \in BOOLEAN }
    \cup { FunctionCallSite(U, TCategory, Verbosity, IsPrintf, Shape, Condition) :
             U \in FlavorSet, TCategory \in CategoryNames \cup { "" },
             Verbosity \in FunctionVerbosities, IsPrintf \in BOOLEAN,
             Shape \in { "bool", "lambda" }, Condition \in BOOLEAN }

\* What a macro call site does: UNLOG / UNLOGF, or UNCLOG / UNCLOGF
MacroDid(site, Pushed) ==
    IF site.Shape = "unconditional"
    THEN UNLOG(site.MacroArgs, site.Unlog, site.IsPrintf, site.Verbosity, Pushed)
    ELSE UNCLOG(site.Condition, site.MacroArgs, site.Unlog, site.IsPrintf, site.Verbosity,
                Pushed)

\* Every macro call site a program can write with the flavors of FlavorSet
MacroSites(FlavorSet) ==
    LET Named == { << NoArgs, U >> : U \in FlavorSet }
                 \cup { << CategoryArg(c), U >> : c \in CategoryNames, U \in FlavorSet }
                 \cup { << SettingsArg(U), TUnlogDefault >> : U \in FlavorSet }
    IN  { MacroCallSite(m[1], m[2], Verbosity, IsPrintf, "unconditional", TRUE) :
            m \in Named, Verbosity \in MacroVerbosities, IsPrintf \in BOOLEAN }
        \cup { MacroCallSite(m[1], m[2], Verbosity, IsPrintf, "bool", Condition) :
                 m \in Named, Verbosity \in MacroVerbosities, IsPrintf \in BOOLEAN,
                 Condition \in BOOLEAN }

\* The flavors a program that also installs runtime settings logs with: TUnlog<>,
\* the README's Example B and CompileTest's CustomUnlog
RuntimeFlavors == { TUnlogDefault, ExampleB, CustomUnlog }

\* A function call of any shape on one of the flavors of FlavorSet
CallFunctionOf(FlavorSet) ==
    /\ Running
    /\ \E site \in FunctionCallSites(FlavorSet) :
          Called(site, FunctionDid(site, PushedCategories))

\* A macro call of any shape with one of the flavors of FlavorSet
CallMacroOf(FlavorSet) ==
    /\ Running
    /\ \E site \in MacroSites(FlavorSet) :
          Called(site, MacroDid(site, PushedCategories))

\* The steps of a call that come before category resolution
RECURSIVE BeforePick(_)

BeforePick(did) ==
    IF did = << >> \/ did[1].op = "PickCategory" THEN << >>
    ELSE << did[1] >> \o BeforePick(Tail(did))

\* A call in a build taken from all builds: it completes, or it reaches
\* CategoryPicker::PickCategory and that call does not return.
CalledOrLost(site, did, outcome) ==
    IF outcome = "returns" \/ ~UsesLogger(did)
    THEN Called(site, did)
    ELSE /\ pc' = "called"
         /\ call' = site
         /\ events' = BeforePick(did)
         /\ crashed' = TRUE
         /\ UnloggerGet
         /\ UNCHANGED << PushedCategories, ScopedCategories, Counter, ContextGuards,
                         staticVars, Applied, GEngine, MessageLogModule, otherVars >>

CallFunctionAnyBuild(FlavorSet) ==
    /\ Running
    /\ \E site \in FunctionCallSites(FlavorSet), outcome \in PickerOutcomes :
          CalledOrLost(site, FunctionDid(site, PushedCategories), outcome)

CallMacroAnyBuild(FlavorSet) ==
    /\ Running
    /\ \E site \in MacroSites(FlavorSet), outcome \in PickerOutcomes :
          CalledOrLost(site, MacroDid(site, PushedCategories), outcome)

----------------------------------------------------------------------------
(* Contexts *)

ContextNames == { "CtxA", "CtxB" }

GuardIds == 1 .. MaxContextGuards

\* Counter is a uint32.  Its 32 bits are kept as the two's-complement integer with
\* the same bits: 0 .. Int32Max stand for themselves, 0xFFFFFFFF is -1.
Int32Max == 2147483647

\* UnlogContextBase::IncrementCounter: Counter++ (modulo 2^32)
IncrementCounter(c) == IF c = Int32Max THEN (-Int32Max) - 1 ELSE c + 1

\* Counter > 0u, an unsigned comparison: every bit pattern but 0
Positive(c) == c /= 0

\* DecrementCounter without its check
DecrementUnchecked(c) == TRUE

\* UnlogContextBase::DecrementCounter: check(Counter > 0u)
DecrementCheck(c) == Positive(c)

\* UnlogContextBase::DecrementCounter, past its check: Counter-- (modulo 2^32)
DecrementCounter(c) == IF c = (-Int32Max) - 1 THEN Int32Max ELSE c - 1

\* UnlogContextBase::IsActive
IsActive(Context) == Positive(Counter[Context])

\* A destructor that decrements whatever Value is
DestructorDecrementsAlways(Value) == TRUE

\* The decrement a guard's destructor performs: every guard, or only those with Value
DestructorDecrements(Value) == Value

\* A call of DecrementCounter on Context: the check fails (fatal) or the counter drops.
DoDecrement(Context) ==
    IF DecrementCheck(Counter[Context])
    THEN /\ Counter' = [ Counter EXCEPT ![Context] = DecrementCounter(@) ]
         /\ UNCHANGED crashed
    ELSE /\ crashed' = TRUE
         /\ UNCHANGED Counter

\* UnloggerScopedContext< Context >( InValue ): scopedcontext( Context, InValue )
ScopedContextOpen ==
    /\ ~crashed
    /\ \E g \in GuardIds \ DOMAIN ContextGuards, Context \in ContextNames, InValue \in BOOLEAN :
          /\ ContextGuards' =
                [ h \in DOMAIN ContextGuards \cup { g } |->
                    IF h = g THEN [ Context |-> Context, Value |-> InValue, Copied |-> FALSE ]
                    ELSE ContextGuards[h] ]
          /\ Counter' = IF InValue
                        THEN [ Counter EXCEPT ![Context] = IncrementCounter(@) ]
                        ELSE Counter
    /\ UNCHANGED << crashed, loggerVars, staticVars, settingsVars, hostVars, otherVars >>

\* ~UnloggerScopedContext(), of any guard alive
ScopedContextClose ==
    /\ ~crashed
    /\ \E g \in DOMAIN ContextGuards :
          /\ ContextGuards' = [ h \in DOMAIN ContextGuards \ { g } |-> ContextGuards[h] ]
          /\ IF DestructorDecrements(ContextGuards[g].Value)
             THEN DoDecrement(ContextGuards[g].Context)
             ELSE UNCHANGED << Counter, crashed >>
    /\ UNCHANGED << loggerVars, staticVars, settingsVars, hostVars, otherVars >>

\* The implicit copy constructor of UnloggerScopedContext: Value is copied, the
\* counter is not touched.
ScopedContextCopy ==
    /\ ~crashed
    /\ \E g \in DOMAIN ContextGuards, c \in GuardIds \ DOMAIN ContextGuards :
          ContextGuards' =
              [ h \in DOMAIN ContextGuards \cup { c } |->
                  IF h = c THEN [ ContextGuards[g] EXCEPT !.Copied = TRUE ]
                  ELSE ContextGuards[h] ]
    /\ UNCHANGED << Counter, crashed, loggerVars, staticVars, settingsVars, hostVars, otherVars >>

\* Context::Static().DecrementCounter(), called directly (the method is public)
DecrementCounterCall ==
    /\ ~crashed
    /\ \E Context \in ContextNames : DoDecrement(Context)
    /\ UNCHANGED << ContextGuards, loggerVars, staticVars, settingsVars, hostVars, otherVars >>

----------------------------------------------------------------------------
(* Guards declared in lexically nested scopes of one function                      *)

\* Each declaration opens a guard; leaving a scope destroys its guards, innermost
\* first.  Scopes holds the kind of each guard object alive; the category guards are
\* in ScopedCategories, and the context guard at position g of Scopes is
\* ContextGuards[g].

\* UNLOG_CATEGORY_PUSH( TCategory ), the guard object initialised in place by the
\* constructor (C++17, or the copy elided): one push.
CategoryPushDeclared ==
    /\ Running
    /\ Len(Scopes) < MaxContextGuards
    /\ Len(ScopedCategories) < MaxDepth
    /\ \E TCategory \in CategoryNames :
          /\ PushedCategories' = PushCategory(PushedCategories, GetName(Static(TCategory)))
          /\ ScopedCategories' = Append(ScopedCategories, TCategory)
    /\ Scopes' = Append(Scopes, "category")
    /\ UnloggerGet
    /\ UNCHANGED << pc, call, events, contextVars, staticVars,
                    Applied, GEngine, MessageLogModule, Workers, Alias >>

\* UNLOG_CATEGORY_PUSH( TCategory ), the guard object copy-initialised from the
\* temporary FUnlogScopedCategory< TCategory >() (before C++17, copy not elided): the
\* temporary's constructor pushes, the implicit copy constructor does nothing, and
\* the temporary's destructor pops at the end of the declaration.
CategoryPushDeclaredCopied ==
    /\ Running
    /\ Len(Scopes) < MaxContextGuards
    /\ Len(ScopedCategories) < MaxDepth
    /\ \E TCategory \in CategoryNames :
          /\ PushedCategories' =
                PopCategory(PushCategory(PushedCategories, GetName(Static(TCategory))))
          /\ ScopedCategories' = Append(ScopedCategories, TCategory)
    /\ Scopes' = Append(Scopes, "category")
    /\ UnloggerGet
    /\ UNCHANGED << pc, call, events, contextVars, staticVars,
                    Applied, GEngine, MessageLogModule, Workers, Alias >>

\* scopedcontext( Context, InValue ): the guard object is direct-initialised
ScopedContextDeclared ==
    /\ Running
    /\ Len(Scopes) < MaxContextGuards
    /\ \E Context \in ContextNames, InValue \in BOOLEAN :
          /\ ContextGuards' =
                [ h \in DOMAIN ContextGuards \cup { Len(Scopes) + 1 } |->
                    IF h = Len(Scopes) + 1
                    THEN [ Context |-> Context, Value |-> InValue, Copied |-> FALSE ]
                    ELSE ContextGuards[h] ]
          /\ Counter' = IF InValue
                        THEN [ Counter EXCEPT ![Context] = IncrementCounter(@) ]
                        ELSE Counter
    /\ Scopes' = Append(Scopes, "context")
    /\ UNCHANGED << crashed, loggerVars, staticVars, settingsVars, hostVars, Workers, Alias >>

\* scopedcontext( Context, InValue ) in a function that declares no other guard
\* this way
OneContextDeclared ==
    /\ Scopes = << >>
    /\ ScopedContextDeclared

\* The innermost scope with a guard alive is left: the destructor of that guard runs
ScopeLeft ==
    /\ Running
    /\ Len(Scopes) > 0
    /\ Scopes' = SubSeq(Scopes, 1, Len(Scopes) - 1)
    /\ IF Scopes[Len(Scopes)] = "category"
       THEN /\ ScopedCategories' = SubSeq(ScopedCategories, 1, Len(ScopedCategories) - 1)
            /\ IF Len(PushedCategories) > 0
               THEN /\ PushedCategories' = PopCategory(PushedCategories)
                    /\ UNCHANGED crashed
               ELSE /\ crashed' = TRUE
                    /\ UNCHANGED PushedCategories
            /\ UnloggerGet
            /\ UNCHANGED << Counter, ContextGuards >>
       ELSE /\ ContextGuards' =
                  [ h \in DOMAIN ContextGuards \ { Len(Scopes) } |-> ContextGuards[h] ]
            /\ IF DestructorDecrements(ContextGuards[Len(Scopes)].Value)
               THEN DoDecrement(ContextGuards[Len(Scopes)].Context)
               ELSE UNCHANGED << Counter, crashed >>
            /\ UNCHANGED << PushedCategories, ScopedCategories, Settings, SettingsObjects,
                            OnPostEngineInit, TelemetryRequests >>
    /\ UNCHANGED << pc, call, events, staticVars,
                    Applied, GEngine, MessageLogModule, Workers, Alias >>

----------------------------------------------------------------------------
(* Function-local statics: UnlogCategoryCRTP::Static, RuntimeSettingsCRTP::Static, *)
(* Unlogger::Get                                                                   *)

Threads == 1 .. NumThreads

Statics == { "LogGeneral", "CatA", "UnlogDefaultRuntimeSettings", "Unlogger" }

\* The Static() calls the initializer of each static makes, in order:
\* CreateLogger -> ApplyRuntimeSettingsInternal<UnlogDefaultRuntimeSettings> ->
\* UnlogDefaultRuntimeSettings::Static(); MakeSettings -> PopulateSettings ->
\* SetDefaultCategory<LogGeneral> -> LogGeneral::Static(); Construct() calls none.
InitializerCalls(o) ==
    CASE o = "Unlogger" -> << "UnlogDefaultRuntimeSettings" >>
      [] o = "UnlogDefaultRuntimeSettings" -> << "LogGeneral" >>
      [] OTHER -> << >>

\* A static whose initialization is not serialized: a thread arriving while another
\* runs the initializer runs it too
StaticGuardUnserialized(state) ==
    CASE state = "uninit" -> "construct"
      [] state = "initializing" -> "construct"
      [] OTHER -> "skip"

\* What a thread finds at `static T Type = ...;`: "construct" (it is the one to run
\* the initializer), "wait" (another thread is running it) or "skip" (initialized).
StaticGuard(state) ==
    CASE state = "uninit" -> "construct"
      [] state = "initializing" -> "wait"
      [] OTHER -> "skip"

Top(t) == Frames[t][Len(Frames[t])]

\* The static the thread is about to access: any, from outside; the next one its
\* running initializer calls, from inside.
NextAccess(t) ==
    IF Frames[t] = << >> THEN Statics
    ELSE IF Top(t).next <= Len(InitializerCalls(Top(t).obj))
         THEN { InitializerCalls(Top(t).obj)[Top(t).next] }
         ELSE { }

\* `return Type;` reaches the caller: the running initializer moves on, or the
\* application code has its instance.
Returned(t, stack, o, generation) ==
    /\ Frames' = [ Frames EXCEPT ![t] =
                     IF stack = << >> THEN stack
                     ELSE [ stack EXCEPT ![Len(stack)].next = @ + 1 ] ]
    /\ Obtained' = IF stack = << >>
                   THEN [ Obtained EXCEPT ![t][o] = generation ]
                   ELSE Obtained

\* A thread enters T::Static() / Unlogger::Get()
StaticEnter(t) ==
    \E o \in NextAccess(t) :
       LET found == StaticGuard(InitState[o])
       IN  /\ found /= "wait"
           /\ IF found = "construct"
              THEN /\ InitState' = [ InitState EXCEPT ![o] = "initializing" ]
                   /\ Frames' = [ Frames EXCEPT ![t] = Append(@, [ obj |-> o, next |-> 1 ]) ]
                   /\ UNCHANGED << Constructions, Obtained >>
              ELSE /\ Returned(t, Frames[t], o, Constructions[o])
                   /\ UNCHANGED << InitState, Constructions >>
           /\ UNCHANGED << loggerVars, contextVars, settingsVars, hostVars, otherVars >>

\* The initializer the thread runs completes: the object is constructed
StaticConstructed(t) ==
    /\ Frames[t] /= << >>
    /\ NextAccess(t) = { }
    /\ LET o == Top(t).obj
       IN  /\ Constructions' = [ Constructions EXCEPT ![o] = @ + 1 ]
           /\ InitState' = [ InitState EXCEPT ![o] = "done" ]
           /\ Returned(t, SubSeq(Frames[t], 1, Len(Frames[t]) - 1), o, Constructions[o] + 1)
    /\ UNCHANGED << loggerVars, contextVars, settingsVars, hostVars, otherVars >>

----------------------------------------------------------------------------
(* The build without UNLOG_ENABLED (UE_BUILD_SHIPPING) *)

\* Overload resolution of `template< typename... TAllArgTypes > FunctionName(
\* TAllArgTypes... Args )` at a call site: an explicit template argument is the type
\* of the first parameter, which no format argument converts to.
DisabledViable(site) == site.TCategory = ""

\* The body of the disabled FunctionName: {}.  Its arguments are taken by value and
\* never used; a TFunction among them is not invoked.
DisabledFunctionName(site) == << >>

\* UNLOG(...), UNLOGF(...), UNCLOG(...), UNCLOGF(...) expand to UNLOG_COMPILED_OUT,
\* which is empty: no argument is evaluated.
DisabledMacro(site) == << >>

\* A function call in the disabled build: the program with this call does not
\* compile, or the call does nothing.
CallDisabledFunction ==
    /\ Running
    /\ \E site \in FunctionCallSites(Flavors) :
          /\ pc' = IF DisabledViable(site) THEN "called" ELSE "ill-formed"
          /\ call' = site
          /\ events' = DisabledFunctionName(site)
    /\ UNCHANGED << PushedCategories, ScopedCategories, contextVars, staticVars,
                    settingsVars, hostVars, otherVars >>

\* A macro call in the disabled build
CallDisabledMacro ==
    /\ Running
    /\ \E m \in MacroCallSites, Verbosity \in MacroVerbosities, IsPrintf \in BOOLEAN,
          Shape \in { "unconditional", "bool" }, Condition \in BOOLEAN :
          /\ Shape = "unconditional" => Condition
          /\ pc' = "called"
          /\ call' = MacroCallSite(m[1], m[2], Verbosity, IsPrintf, Shape, Condition)
          /\ events' = DisabledMacro(call')
    /\ UNCHANGED << PushedCategories, ScopedCategories, contextVars, staticVars,
                    settingsVars, hostVars, otherVars >>

----------------------------------------------------------------------------
(* Threads that each run { UNLOG_CATEGORY_PUSH( C ); Unlog::Log( ... ); } *)

IdleWorker == [ pc |-> "start", seen |-> << >>, resolved |-> "", popped |-> "" ]

\* The category of the guard each thread declares
WorkerCategory(t) ==
    CASE t = 1 -> "CatA"
      [] t = 2 -> "CatB"
      [] OTHER -> "LogGeneral"

\* The flavors whose category policy is TDeriveCategory
DeriveFlavors == { U \in Flavors : U.CategoryPicker.kind = "TDeriveCategory" }

\* Unlogger::Get() returns the one Logger to every thread; PushCategory, Last and
\* PopCategory run on its PushedCategories without a lock.  Each TArray operation
\* is taken as one step.

\* FUnlogScopedCategory< C >() on thread t
WorkerOpen(t) ==
    /\ ~crashed
    /\ Workers[t].pc = "start"
    /\ PushedCategories' = PushCategory(PushedCategories, GetName(Static(WorkerCategory(t))))
    /\ Workers' = [ Workers EXCEPT ![t].pc = "guarded" ]
    /\ UnloggerGet
    /\ UNCHANGED << ScopedCategories, pc, call, events, contextVars, staticVars,
                    Applied, GEngine, MessageLogModule, Alias, Scopes >>

\* Unlog::Log( "..." ) of a derive-policy flavor on thread t, inside its scope
WorkerLog(t) ==
    /\ ~crashed
    /\ Workers[t].pc = "guarded"
    /\ \E U \in DeriveFlavors :
          LET did == LogFunction(U, "", FALSE, Log, PushedCategories)
          IN  Workers' = [ Workers EXCEPT ![t] =
                             [ pc |-> "logged", seen |-> PushedCategories,
                               resolved |-> did[1].Category, popped |-> "" ] ]
    /\ UNCHANGED << loggerVars, contextVars, staticVars, settingsVars, hostVars, Alias, Scopes >>

\* ~FUnlogScopedCategory() on thread t
WorkerClose(t) ==
    /\ ~crashed
    /\ Workers[t].pc = "logged"
    /\ IF Len(PushedCategories) > 0
       THEN /\ PushedCategories' = PopCategory(PushedCategories)
            /\ Workers' = [ Workers EXCEPT ![t].pc = "done",
                                           ![t].popped = PushedCategories[Len(PushedCategories)] ]
            /\ UNCHANGED crashed
       ELSE /\ crashed' = TRUE
            /\ UNCHANGED << PushedCategories, Workers >>
    /\ UNCHANGED << ScopedCategories, pc, call, events, Counter, ContextGuards, staticVars,
                    settingsVars, hostVars, Alias, Scopes >>

\* Thread t comes to the block again
WorkerAgain(t) ==
    /\ ~crashed
    /\ Workers[t].pc = "done"
    /\ Workers' = [ Workers EXCEPT ![t] = IdleWorker ]
    /\ UNCHANGED << loggerVars, contextVars, staticVars, settingsVars, hostVars, Alias, Scopes >>

----------------------------------------------------------------------------
(* A chain of builder steps: using Alias = TUnlog<>::Step1< ... >::Step2< ... > *)

MaxSteps == 2          \* builder steps in one chain

TUnlogAlias == [ flavor |-> TUnlogDefault, steps |-> << >> ]

\* ::name< Targets... > or ::name< InCategory >
BuilderStep(name, Targets, InCategory) ==
    [ step |-> name, Targets |-> Targets, Category |-> InCategory ]

\* The member alias template of TUnlog the step names
ApplyStep(U, s) ==
    CASE s.step = "WithTargets" -> WithTargets(U, s.Targets)
      [] s.step = "AddTarget" -> AddTarget(U, s.Targets)
      [] s.step = "WithDefaultCategory" -> WithDefaultCategory(U, s.Category)
      [] OTHER -> WithCategory(U, s.Category)

BuilderSteps ==
    { BuilderStep(name, p, "") : name \in { "WithTargets", "AddTarget" }, p \in TargetPacks }
    \cup { BuilderStep(name, << >>, c) : name \in { "WithDefaultCategory", "WithCategory" },
                                         c \in CategoryNames }

\* One more ::Step< ... > is appended to the alias
Build ==
    /\ Len(Alias.steps) < MaxSteps
    /\ \E s \in BuilderSteps :
          Alias' = [ flavor |-> ApplyStep(Alias.flavor, s), steps |-> Append(Alias.steps, s) ]
    /\ UNCHANGED << loggerVars, contextVars, staticVars, settingsVars, hostVars, Workers, Scopes >>

\* Another alias is started from TUnlog<>
BuildAnother ==
    /\ Alias.steps /= << >>
    /\ Alias' = TUnlogAlias
    /\ UNCHANGED << loggerVars, contextVars, staticVars, settingsVars, hostVars, Workers, Scopes >>

----------------------------------------------------------------------------
(* Specifications *)

Started ==
    /\ PushedCategories = << >>
    /\ ScopedCategories = << >>
    /\ pc = "idle"
    /\ call = NoCall
    /\ events = << >>
    /\ Counter = [ Context \in ContextNames |-> 0 ]
    /\ ContextGuards = << >>
    /\ crashed = FALSE
    /\ InitState = [ o \in Statics |-> "uninit" ]
    /\ Constructions = [ o \in Statics |-> 0 ]
    /\ Frames = [ t \in Threads |-> << >> ]
    /\ Obtained = [ t \in Threads |-> [ o \in Statics |-> 0 ] ]
    /\ Settings = nullptr
    /\ SettingsObjects = << >>
    /\ Applied = nullptr
    /\ OnPostEngineInit = 0
    /\ TelemetryRequests = 0
    /\ Workers = [ t \in Threads |-> IdleWorker ]
    /\ Alias = TUnlogAlias
    /\ Scopes = << >>

\* The process has started and the engine is initialized: nothing of Unlog has been
\* used yet.
Init ==
    /\ Started
    /\ GEngine = "initialized"
    /\ MessageLogModule = TRUE

\* The process has started and the engine is not initialized yet.
InitStartup ==
    /\ Started
    /\ GEngine = nullptr
    /\ MessageLogModule = TRUE

\* The same, in a build that has the MessageLog module or in one that has not.
InitHost ==
    /\ Started
    /\ GEngine = nullptr
    /\ MessageLogModule \in BOOLEAN

\* The application thread: log calls of every shape and nested scoped categories
Next ==
    \/ CallLogFunction
    \/ CallLogFunctionIf
    \/ CallLogFunctionLambda
    \/ CallUNLOG
    \/ CallUNCLOG
    \/ Return
    \/ ScopedCategoryEnter
    \/ ScopedCategoryExit

Spec == Init /\ [][Next]_vars

\* Scoped context guards, opened and closed in any order
NextScoped ==
    \/ ScopedContextOpen
    \/ ScopedContextClose

SpecScoped == Init /\ [][NextScoped]_vars

\* Scoped context guards, their copies, and direct calls of DecrementCounter
NextContext ==
    \/ ScopedContextOpen
    \/ ScopedContextClose
    \/ ScopedContextCopy
    \/ DecrementCounterCall

SpecContext == Init /\ [][NextContext]_vars

\* Category and context guards declared in nested scopes, in a build that elides the
\* copy of UNLOG_CATEGORY_PUSH or in one that does not
NextNested ==
    \/ CategoryPushDeclared
    \/ CategoryPushDeclaredCopied
    \/ ScopedContextDeclared
    \/ ScopeLeft

SpecNested == Init /\ [][NextNested]_vars

\* The flavors of the program below: the README's Example B, which derives the
\* category from the scope stack and logs to two targets, and CompileTest's
\* CustomUnlog, which names its category and logs to one.  Its macro calls that pass
\* a flavor are written on TUnlog<>.
FrameFlavors == { ExampleB, CustomUnlog }

\* Log calls of every shape and verbosity on the flavors of FrameFlavors, made with
\* category guards and a context guard open and with runtime settings installed
NextFrame ==
    \/ CallFunctionOf(FrameFlavors)
    \/ CallMacroOf(FrameFlavors)
    \/ Return
    \/ ScopedCategoryEnter
    \/ ScopedCategoryExit
    \/ ApplyRuntimeSettings
    \/ OneContextDeclared
    \/ ScopeLeft

SpecFrame == Init /\ [][NextFrame]_vars

\* Threads accessing the statics for the first time, concurrently
NextStatic ==
    \E t \in Threads :
       \/ StaticEnter(t)
       \/ StaticConstructed(t)

SpecStatic == Init /\ [][NextStatic]_vars

\* The build without UNLOG_ENABLED: log calls of every shape
NextDisabled ==
    \/ CallDisabledFunction
    \/ CallDisabledMacro
    \/ Return

SpecDisabled == Init /\ [][NextDisabled]_vars

\* Log calls while the engine starts up
NextHost ==
    \/ CallLogFunction
    \/ CallUNLOG
    \/ Return
    \/ PostEngineInit

SpecHost == InitHost /\ [][NextHost]_vars

\* A program that installs runtime settings while it logs and the engine starts up
NextRuntime ==
    \/ CallFunctionOf(RuntimeFlavors)
    \/ CallMacroOf(RuntimeFlavors)
    \/ Return
    \/ ScopedCategoryEnter
    \/ ScopedCategoryExit
    \/ ApplyRuntimeSettings
    \/ PostEngineInit

SpecRuntime == InitStartup /\ [][NextRuntime]_vars

\* Log calls and scoped categories, in any build of the pickers
NextPickers ==
    \/ CallFunctionAnyBuild(RuntimeFlavors)
    \/ CallMacroAnyBuild(RuntimeFlavors)
    \/ Return
    \/ ScopedCategoryEnter
    \/ ScopedCategoryExit

SpecPickers == Init /\ [][NextPickers]_vars

\* Threads that each run { guard; category-less log call; end of scope }, interleaved
NextThreads ==
    \E t \in Threads :
       \/ WorkerOpen(t)
       \/ WorkerLog(t)
       \/ WorkerClose(t)
       \/ WorkerAgain(t)

SpecThreads == Init /\ [][NextThreads]_vars

\* Aliases built from TUnlog<> by chains of builder steps
NextBuilder ==
    \/ Build
    \/ BuildAnother

SpecBuilder == Init /\ [][NextBuilder]_vars

----------------------------------------------------------------------------
(* Reading a finished log call *)

EventsOf(op) == SelectSeq(events, LAMBDA e : e.op = op)

SinkCalls == EventsOf("Call")

SinkNames == [ i \in 1 .. Len(SinkCalls) |-> SinkCalls[i].target ]

PackNames(pack) == [ i \in 1 .. Len(pack) |-> pack[i].name ]

\* The call got past its guard: a category was resolved
Resolving == pc = "called" /\ Len(EventsOf("PickCategory")) = 1

ResolvedCategory == EventsOf("PickCategory")[1].Category

\* The flavor the call site names: the one passed to the macro, else the one the
\* function belongs to or the program has named Unlog
CallFlavor ==
    IF call.api = "macro" /\ call.MacroArgs.kind = "settings"
    THEN call.MacroArgs.Settings
    ELSE call.Unlog

\* The category the call site supplies explicitly, "" when it supplies none
ExplicitCategory ==
    CASE call.api = "function" /\ call.TCategory /= "" -> call.TCategory
      [] call.api = "macro" /\ call.MacroArgs.kind = "category" -> call.MacroArgs.Category
      [] CallFlavor.CategoryPicker.kind = "TSpecificCategory" -> CallFlavor.CategoryPicker.Category
      [] OTHER -> ""

RECURSIVE LeafNames(_)
RECURSIVE LeafNamesFrom(_, _)

LeafNamesFrom(members, i) ==
    IF i > Len(members) THEN << >>
    ELSE LeafNames(members[i]) \o LeafNamesFrom(members, i + 1)

\* The sinks of a target, in declaration order
LeafNames(T) == IF T.kind = "sink" THEN << T.name >> ELSE LeafNamesFrom(T.members, 1)

Threshold(CategoryName) == GetVerbosity(Static(CategoryName))

SameTriple(e, f) ==
    e.Category = f.Category /\ e.Verbosity = f.Verbosity /\ e.Message = f.Message

----------------------------------------------------------------------------
(* Claims *)

\* C1: a log call that supplies an explicit category (function template argument,
\* macro argument, or a flavor built with WithCategory) resolves to that category,
\* whatever the scope stack and the flavor default are.
C1_ExplicitCategoryWins ==
    (Resolving /\ ExplicitCategory /= "") => ResolvedCategory = ExplicitCategory

\* C2: a log call with no explicit category on a flavor with default category D
\* resolves to the top of the scope stack when the stack is non-empty, else to D.
C2_DeriveFromStackThenDefault ==
    (Resolving /\ ExplicitCategory = "") =>
        ResolvedCategory =
            IF PushedCategories /= << >>
            THEN PushedCategories[Len(PushedCategories)]
            ELSE CallFlavor.CategoryPicker.Category

C2_Witness ==
    /\ Resolving
    /\ ExplicitCategory = ""
    /\ PushedCategories = << "CatA" >>
    /\ CallFlavor.CategoryPicker.Category = "CatB"
    /\ ResolvedCategory = "CatA"

\* C3: an enabled log call whose verbosity V is not NoLogging and is at most the
\* resolved category's threshold delivers exactly one rendered message to every
\* target of the call's flavor, in declaration order, and to no other target.
C3_PassingCallReachesEveryTarget ==
    (/\ Resolving
     /\ call.Verbosity <= Threshold(ResolvedCategory)
     /\ call.Verbosity /= NoLogging)
    => /\ Len(EventsOf("ProcessFormatString")) = 1
       /\ SinkNames = LeafNames(CallFlavor.TargetOptions)
       /\ \A i \in 1 .. Len(SinkCalls) :
             /\ SinkCalls[i].Message = EventsOf("ProcessFormatString")[1].Message
             /\ SinkCalls[i].Message =
                   ProcessFormatString(call.IsPrintf, FormatOf(call.IsPrintf), FormatArgs)

C3_Witness ==
    /\ Resolving
    /\ call.Verbosity = Log
    /\ Threshold(ResolvedCategory) = Log
    /\ SinkNames = << "UELog", "MessageLog", "GameScreen" >>

\* C4: a log call whose verbosity is above the resolved category's threshold, or
\* is NoLogging, formats nothing and calls no sink.
C4_FilteredCallDoesNothing ==
    (/\ Resolving
     /\ \/ call.Verbosity > Threshold(ResolvedCategory)
        \/ call.Verbosity = NoLogging)
    => /\ EventsOf("ProcessFormatString") = << >>
       /\ SinkCalls = << >>

C4_Witness ==
    /\ Resolving
    /\ call.Verbosity = NoLogging
    /\ events[Len(events)].op = "Filter"

\* Every way the model builds a flavor with AddTarget
AddTargetBuilds ==
    UNION { { [ base |-> U, pack |-> p, built |-> AddTarget(U, p) ] : p \in AddTargetPacks(U) }
            : U \in AddTargetBases }

\* C5: a composite target built from sinks S1..Sn that receives one emission calls
\* each Si exactly once, in the order S1..Sn, each with the same (category,
\* verbosity, message); a composite produced by AddTarget calls the previously
\* configured targets before the added ones.
C5_CompositeFanOutInOrder ==
    (pc = "called" /\ SinkCalls /= << >>) =>
        /\ \A p \in TargetPacks :
              CallFlavor.TargetOptions = TMultiTarget(p) => SinkNames = PackNames(p)
        /\ \A b \in AddTargetBuilds :
              CallFlavor.TargetOptions = b.built.TargetOptions =>
                  SinkNames = LeafNames(b.base.TargetOptions) \o PackNames(b.pack)
        /\ \A i \in 1 .. Len(SinkCalls) : SameTriple(SinkCalls[i], SinkCalls[1])

C5_Witness ==
    /\ pc = "called"
    /\ CallFlavor =
          AddTarget(WithTargets(TUnlogDefault, << Sink("MessageLog"), Sink("UELog") >>),
                    << Sink("GameScreen") >>)
    /\ SinkNames = << "MessageLog", "UELog", "GameScreen" >>

\* C6: after any sequence of strictly nested scoped-category guard constructions
\* and destructions, the scope stack is the list of the categories of the guards
\* alive, in construction order (empty when none is alive).
C6_StackIsTheGuardsAlive ==
    /\ PushedCategories = ScopedCategories
    /\ ~crashed

C6_Witness ==
    /\ ScopedCategories = << "CatA", "CatB" >>
    /\ PushedCategories = << "CatA", "CatB" >>

\* The guards alive that were opened (not copied) on Context with value true
OpenTrue(Context) ==
    { g \in DOMAIN ContextGuards :
        /\ ContextGuards[g].Context = Context
        /\ ContextGuards[g].Value
        /\ ~ContextGuards[g].Copied }

\* C7: for every context flag and every sequence of scoped context guards opened
\* and closed in any order, the counter is the number of guards open that were
\* opened with true, and IsActive() holds exactly when that number is positive.
C7_CounterCountsOpenTrueGuards ==
    \A Context \in ContextNames :
        /\ Counter[Context] = Cardinality(OpenTrue(Context))
        /\ IsActive(Context) <=> Cardinality(OpenTrue(Context)) > 0

C7_Witness ==
    /\ Cardinality(OpenTrue("CtxA")) = 2
    /\ Counter["CtxA"] = 2
    /\ \E g \in DOMAIN ContextGuards :
          ContextGuards[g].Context = "CtxA" /\ ~ContextGuards[g].Value
    /\ IsActive("CtxA")
    /\ ~IsActive("CtxB")

C9_ConstructedExactlyOnce ==
    \A o \in Statics :
        /\ Constructions[o] <= 1
        /\ \A t \in Threads :
              Obtained[t][o] /= 0 => (Obtained[t][o] = 1 /\ InitState[o] = "done")

C9_Witness ==
    \A t \in Threads :
        /\ Obtained[t]["CatA"] = 1
        /\ Obtained[t]["Unlogger"] = 1
        /\ Frames[t] = << >>

\* What the unconditional call of the same call site does
Unconditional ==
    IF call.api = "function"
    THEN LogFunction(call.Unlog, call.TCategory, call.IsPrintf, call.Verbosity,
                     PushedCategories)
    ELSE UNLOG(call.MacroArgs, call.Unlog, call.IsPrintf, call.Verbosity, PushedCategories)

Stage(op) ==
    CASE op = "LambdaCondition" -> 0
      [] op = "PickCategory" -> 1
      [] op = "Filter" -> 2
      [] op = "ProcessFormatString" -> 3
      [] OTHER -> 4

C11_DisabledCallIsNoOp ==
    pc /= "idle" =>
        /\ pc = "called"
        /\ events = << >>
        /\ ~crashed
        /\ PushedCategories = << >>
        /\ Settings = nullptr
        /\ TelemetryRequests = 0

\* C12: when a member sink of a composite target fails during dispatch, every sink
\* declared after it is still called, once and with the same triple, and the failure
\* does not crash the caller.
C12_SinkFailureIsContained ==
    (pc = "called" /\ \E i \in 1 .. Len(SinkCalls) : HostFails(SinkCalls[i].target))
    => /\ ~crashed
       /\ SinkNames = LeafNames(CallFlavor.TargetOptions)
       /\ \A i \in 1 .. Len(SinkCalls) : SameTriple(SinkCalls[i], SinkCalls[1])

\* C13: once the logger has been obtained, exactly one settings object is installed:
\* the default settings (default category LogGeneral) until ApplyRuntimeSettings<T>
\* is called, then the singleton of the T last applied; no step destroys or alters a
\* settings object constructed before, so it can be installed again.
C13_OneSettingsInstalled ==
    /\ [](Settings /= nullptr =>
            /\ Settings \in SettingsTypes
            /\ Settings \in DOMAIN SettingsObjects
            /\ Settings = IF Applied = nullptr THEN "UnlogDefaultRuntimeSettings" ELSE Applied
            /\ "UnlogDefaultRuntimeSettings" \in DOMAIN SettingsObjects
            /\ GetDefaultCategory(SettingsObjects["UnlogDefaultRuntimeSettings"]) = "LogGeneral"
            /\ \A T \in DOMAIN SettingsObjects : SettingsObjects[T] = MakeSettings(T))
    /\ [][\A T \in DOMAIN SettingsObjects :
              T \in DOMAIN SettingsObjects' /\ SettingsObjects'[T] = SettingsObjects[T]]_vars

C13_Witness ==
    /\ Settings = "UnlogDefaultRuntimeSettings"
    /\ Applied = "UnlogDefaultRuntimeSettings"
    /\ DOMAIN SettingsObjects = SettingsTypes
    /\ SettingsObjects["SettingsA"] = MakeSettings("SettingsA")

\* C14: category resolution always yields a category: whatever the picker and the
\* scope stack (the empty one included), a call that gets past its guard resolves a
\* category that exists, so check(SelectedCategory) never fails; and a settings
\* object whose default category was never set reports LogGeneral.
C14_ResolutionYieldsCategory ==
    /\ (pc = "called" /\ call.Condition) =>
          /\ Resolving
          /\ ResolvedCategory \in CategoryNames
    /\ \A T \in DOMAIN SettingsObjects :
          /\ GetDefaultCategory(SettingsObjects[T]) \in CategoryNames
          /\ SettingsObjects[T].DefaultCategory = nullptr
                => GetDefaultCategory(SettingsObjects[T]) = "LogGeneral"

\* C15: all threads and all flavors use one scope stack: a category-less call of a
\* derive-policy flavor resolves to the category on top of that stack when it runs,
\* whichever thread's guard pushed it, and the stack holds only what guards pushed.
\* (That a thread's call can resolve to another thread's category, and its guard's
\* end of scope remove another thread's entry, is the witness.)
C15_OneStackForAllThreads ==
    /\ \A t \in Threads :
          (Workers[t].pc \in { "logged", "done" } /\ Workers[t].seen /= << >>)
          => Workers[t].resolved = Workers[t].seen[Len(Workers[t].seen)]
    /\ \A i \in 1 .. Len(PushedCategories) :
          \E t \in Threads : PushedCategories[i] = WorkerCategory(t)

C15_Witness ==
    /\ Workers[1].pc = "done"
    /\ Workers[1].resolved = WorkerCategory(2)
    /\ Workers[1].popped = WorkerCategory(2)
    /\ Workers[2].pc = "guarded"
    /\ PushedCategories = << WorkerCategory(1) >>

TargetStep(s) == s.step \in { "WithTargets", "AddTarget" }

RECURSIVE ExpectedLeaves(_, _)
RECURSIVE ExpectedPicker(_, _)
RECURSIVE Built(_, _)

\* The sinks the first n steps of a chain ask for, the category steps left out
ExpectedLeaves(steps, n) ==
    IF n = 0 THEN << "UELog" >>
    ELSE CASE steps[n].step = "WithTargets" -> PackNames(steps[n].Targets)
           [] steps[n].step = "AddTarget" ->
                 ExpectedLeaves(steps, n - 1) \o PackNames(steps[n].Targets)
           [] OTHER -> ExpectedLeaves(steps, n - 1)

\* The category policy the first n steps ask for, the target steps left out
ExpectedPicker(steps, n) ==
    IF n = 0 THEN TDeriveCategory("LogGeneral")
    ELSE CASE steps[n].step = "WithDefaultCategory" -> TDeriveCategory(steps[n].Category)
           [] steps[n].step = "WithCategory" -> TSpecificCategory(steps[n].Category)
           [] OTHER -> ExpectedPicker(steps, n - 1)

\* The flavor after the first n steps
Built(steps, n) ==
    IF n = 0 THEN TUnlogDefault ELSE ApplyStep(Built(steps, n - 1), steps[n])

\* C16: each builder step changes only its own axis: WithTargets<T...> makes the
\* target set exactly [T...], AddTarget<T...> makes it [previous targets, T...],
\* both keep the category policy; WithDefaultCategory<C> and WithCategory<C> replace
\* the category policy and keep the targets.  So a category step and a WithTargets
\* step give the same flavor in either order.
C16_BuilderStepsChangeOneAxis ==
    LET steps == Alias.steps
        n == Len(steps)
    IN  /\ LeafNames(Alias.flavor.TargetOptions) = ExpectedLeaves(steps, n)
        /\ Alias.flavor.CategoryPicker = ExpectedPicker(steps, n)
        /\ n > 0 =>
              /\ steps[n].step = "WithTargets"
                    => Alias.flavor.TargetOptions = TMultiTarget(steps[n].Targets)
              /\ TargetStep(steps[n])
                    => Alias.flavor.CategoryPicker = Built(steps, n - 1).CategoryPicker
              /\ ~TargetStep(steps[n])
                    => Alias.flavor.TargetOptions = Built(steps, n - 1).TargetOptions
        /\ (/\ n > 1
            /\ { steps[n].step, steps[n - 1].step } \cap { "WithTargets" } /= { }
            /\ ~TargetStep(steps[n]) \/ ~TargetStep(steps[n - 1]))
           => Alias.flavor =
                 ApplyStep(ApplyStep(Built(steps, n - 2), steps[n]), steps[n - 1])

C16_Witness ==
    /\ Alias.steps = << BuilderStep("WithCategory", << >>, "CatA"),
                        BuilderStep("WithTargets", << Sink("GameScreen") >>, "") >>
    /\ Alias.flavor = CustomUnlog
    /\ Alias.flavor = WithCategory(WithTargets(TUnlogDefault, << Sink("GameScreen") >>), "CatA")

\* C17: the telemetry request is issued at most once in a process: nothing is bound
\* or run before the logger is first obtained; the dispatcher constructed then runs
\* the request at once when the engine is initialized, and otherwise binds it to
\* OnPostEngineInit, which runs it once when the engine has initialized; no later
\* use of the logger issues it again.
C17_TelemetryAtMostOnce ==
    /\ TelemetryRequests <= 1
    /\ OnPostEngineInit <= 1
    /\ Settings = nullptr => (TelemetryRequests = 0 /\ OnPostEngineInit = 0)
    /\ Settings /= nullptr =>
          \/ /\ OnPostEngineInit = 0
             /\ TelemetryRequests = 1
             /\ GEngine /= nullptr
          \/ /\ OnPostEngineInit = 1
             /\ TelemetryRequests = IF GEngine = nullptr THEN 0 ELSE 1

C17_Witness ==
    /\ OnPostEngineInit = 1
    /\ TelemetryRequests = 1
    /\ GEngine /= nullptr
    /\ Applied = "SettingsA"
    /\ Resolving
    /\ PushedCategories /= << >>

\* C18: a category is what its constructor made it, in every state: its name, and
\* the threshold Log that UNLOG_CATEGORY gives it.  So, after any operations, a call
\* that resolves a category is dispatched when its verbosity is Error, Warning,
\* Display or Log, and filtered out when it is Verbose or VeryVerbose.
C18_CategoriesNeverChange ==
    /\ \A c \in CategoryNames :
          /\ GetName(Static(c)) = c
          /\ GetVerbosity(Static(c)) = Log
    /\ Resolving =>
          /\ call.Verbosity \in { Error, Warning, Display, Log } =>
                /\ Len(EventsOf("ProcessFormatString")) = 1
                /\ SinkCalls /= << >>
          /\ call.Verbosity \in { Verbose, VeryVerbose } =>
                /\ EventsOf("ProcessFormatString") = << >>
                /\ SinkCalls = << >>

C18_Witness ==
    /\ Resolving
    /\ call.Verbosity = VeryVerbose
    /\ PushedCategories = << "CatA", "CatB" >>
    /\ ResolvedCategory = "CatB"
    /\ SinkCalls = << >>

\* The category the code resolves for the call site on the stack as it is: the
\* macro's category argument, the category of a specific-category flavor, else the
\* top of the stack, else the flavor's default
StaticResolution ==
    IF call.api = "macro" /\ call.MacroArgs.kind = "category"
    THEN call.MacroArgs.Category
    ELSE IF CallFlavor.CategoryPicker.kind = "TSpecificCategory" \/ PushedCategories = << >>
         THEN CallFlavor.CategoryPicker.Category
         ELSE PushedCategories[Len(PushedCategories)]

\* C19: installing runtime settings changes the settings reference and nothing else
\* of the logger: the step leaves the scope stack as it is, and any log call resolves
\* the category and reaches the sinks that its call site and the stack determine,
\* whatever settings are installed: never the settings' default category, never a
\* target added to a settings object.
C19_InstallingSettingsChangesNothingElse ==
    /\ [](Resolving =>
            /\ ResolvedCategory = StaticResolution
            /\ Len(SinkNames) <= Len(LeafNames(CallFlavor.TargetOptions))
            /\ \A i \in 1 .. Len(SinkNames) :
                  SinkNames[i] = LeafNames(CallFlavor.TargetOptions)[i]
            /\ (/\ ~crashed
                /\ call.Verbosity <= Threshold(ResolvedCategory)
                /\ call.Verbosity /= NoLogging)
               => SinkNames = LeafNames(CallFlavor.TargetOptions))
    /\ [][(Applied' /= Applied \/ (Settings /= nullptr /\ Settings' /= Settings))
            => UNCHANGED << loggerVars, contextVars >>]_vars

C19_Witness ==
    /\ Settings = "SettingsA"
    /\ GetTargets(SettingsObjects["SettingsA"]) = << "RuntimeTargetA" >>
    /\ GetDefaultCategory(SettingsObjects["SettingsA"]) = "CatA"
    /\ Resolving
    /\ call.api = "function"
    /\ CallFlavor = TUnlogDefault
    /\ PushedCategories = << >>
    /\ ResolvedCategory = "LogGeneral"
    /\ SinkNames = << "UELog" >>

\* C20: in a single-threaded execution that opens and closes category guards and
\* context guards only through UNLOG_CATEGORY_PUSH / UNLOG_CATEGORY_SCOPED /
\* scopedcontext declarations in nested scopes, the checks of PopCategory and
\* DecrementCounter never fail and every guard alive accounts for exactly one push or
\* one increment (when opened with true), also when the guard of UNLOG_CATEGORY_PUSH
\* is initialised by copying a temporary.
C20_NestedGuardsBalanced ==
    /\ ~crashed
    /\ PushedCategories = ScopedCategories
    /\ \A Context \in ContextNames :
          Counter[Context] = Cardinality(OpenTrue(Context))

\* The settings reference the logger holds whenever it is obtained: Unlogger::Get()
\* constructs the logger with the default settings installed the first time it runs
SettingsOfLogger ==
    IF Settings = nullptr THEN "UnlogDefaultRuntimeSettings" ELSE Settings

\* A log call is made, or returns
LogCallStep ==
    \/ pc = "idle" /\ pc' = "called"
    \/ pc = "called" /\ pc' = "idle"

\* C21: a log call of any shape, flavor and verbosity, dispatched or filtered out,
\* leaves the logger state as it was: over the call and its return the scope stack,
\* the settings reference of the logger and the counter of every context flag do not
\* change, and the category it resolved has the name and the threshold it was
\* constructed with.
C21_LogCallLeavesLoggerState ==
    /\ [](Resolving =>
            /\ GetName(Static(ResolvedCategory)) = ResolvedCategory
            /\ GetVerbosity(Static(ResolvedCategory)) = Log)
    /\ [][LogCallStep =>
            /\ PushedCategories' = PushedCategories
            /\ ScopedCategories' = ScopedCategories
            /\ SettingsOfLogger' = SettingsOfLogger
            /\ Applied' = Applied
            /\ Counter' = Counter
            /\ ContextGuards' = ContextGuards
            /\ ~crashed']_vars

C21_Witness ==
    /\ Resolving
    /\ SinkCalls /= << >>
    /\ call.api = "macro"
    /\ call.Shape = "bool"
    /\ Settings = "SettingsA"
    /\ PushedCategories = << "CatA", "CatB" >>
    /\ Counter["CtxA"] = 1
    /\ IsActive("CtxA")

====
